---- MODULE Spec2Model ----
(***************************************************************************)
(* A model of dragonfly's window wrappers:                                 *)
(*   src/dragonfly/windows/base_window.py   (BaseWindow)                   *)
(*   src/dragonfly/windows/win32_window.py  (Win32Window)                  *)
(*                                                                         *)
(* Wrapper objects are numbered in order of construction: object o is      *)
(* objs[o].  Python values whose type matters to the code are tagged       *)
(* records: [t |-> type, n |-> number] for handles, [t |-> type, s |->     *)
(* text] for names and animate arguments.                                  *)
(***************************************************************************)
EXTENDS Integers, Sequences, FiniteSets, TLC

\* ------------------------------------------------------------------ bounds
MaxObjects == 2
MaxMonitors == 2

\* ------------------------------------------------------------------ values
\* Window handles the native side hands out.
Handles == {1, 2}
\* Integers given as a window id: the handles, and a negative integer.
IntHandles == Handles \cup {-1}

IntValue(i) == [t |-> "int", n |-> i]
\* Values given as a window id: integers, and a str, a None and a float.
IdValues ==
    {IntValue(i) : i \in IntHandles}
        \cup {[t |-> "str", n |-> 0], [t |-> "none", n |-> 0], [t |-> "float", n |-> 1]}

Names == {"a", "b"}
StrValue(s) == [t |-> "str", s |-> s]
None == [t |-> "none", s |-> ""]
\* Values given as a window name: strings, and an integer.
NameValues == {StrValue(s) : s \in Names} \cup {[t |-> "int", s |-> "7"]}

Range(seq) == {seq[i] : i \in DOMAIN seq}

\* Sequences of distinct elements of S, of length 1 .. n.
RECURSIVE DistinctSeqs(_, _)
DistinctSeqs(S, n) ==
    IF n = 0 \/ S = {}
    THEN {}
    ELSE {<<x>> : x \in S}
            \cup UNION {{<<x>> \o q : q \in DistinctSeqs(S \ {x}, n - 1)} : x \in S}

\* dict[key] = value
Put(dict, key, value) ==
    [k \in DOMAIN dict \cup {key} |-> IF k = key THEN value ELSE dict[k]]

\* Rectangle(x1, y1, dx, dy)
Rectangle(l, t, w, h) == [l |-> l, t |-> t, w |-> w, h |-> h]
NoRect == Rectangle(0, 0, 0, 0)

\* Positions given to and held by windows (even sizes: the center is integral).
Rects ==
    {Rectangle(0, 0, 2, 2), Rectangle(2, 0, 2, 2), Rectangle(3, 0, 2, 2),
     Rectangle(0, 3, 2, 2)}
\* Monitor bounds: two overlapping monitors.
MonitorRects == {Rectangle(0, 0, 4, 4), Rectangle(2, 0, 4, 4)}
\* The monitor lists the monitor module may hold, the empty one included.
MonitorLists ==
    UNION {[1 .. n -> MonitorRects] : n \in 0 .. MaxMonitors}

\* A rectangle with fractional coordinates: l/d, t/d, w/d, h/d.
Fraction(l, t, w, h, d) == [l |-> l, t |-> t, w |-> w, h |-> h, d |-> d]
\* Normalized positions given to set_normalized_position: the left and the
\* right half of a monitor's width, at half its height (whole pixels on the
\* monitors of MonitorRects).
NormRects == {Fraction(0, 0, 1, 1, 2), Fraction(1, 0, 1, 1, 2)}

\* Process handles OpenProcess can give; 0 is its failure.
ProcHandles == {4, 8}
\* Executable paths a query can leave in the buffer; "" is an untouched buffer.
ExePaths == {"", "app.exe"}

\* Values given as move()'s animate argument.
AnimateValues == {None, StrValue(""), StrValue("bogus"), StrValue("spiral")}

VARIABLES
    objs,              \* the wrapper objects: [id, names], in construction order
    windows_by_id,     \* BaseWindow._windows_by_id: handle -> object
    windows_by_name,   \* BaseWindow._windows_by_name: name -> object
    added,             \* history: per object, its names in order of first addition
    winrect,           \* native: handle -> window rectangle (left, top, right, bottom)
    show,              \* native: handle -> "normal", "minimized" or "maximized"
    monitors,          \* monitor.monitors: the ordered monitor rectangles
    openProc,          \* native: the process handles open and not yet closed
    frame,             \* the _get_window_module call in progress
    trace,             \* the native and collaborator calls of the last call
    last               \* the last call: its arguments, result and error

vars ==
    <<objs, windows_by_id, windows_by_name, added, winrect, show, monitors,
      openProc, frame, trace, last>>

\* The record of a call; each operation fills the fields it uses.
NoCall ==
    [op |-> "none", obj |-> 0, id |-> IntValue(0), name |-> None,
     res |-> 0, rname |-> None, list |-> <<>>, err |-> "",
     hs |-> <<>>, rect |-> NoRect, animate |-> None, before |-> "",
     norm |-> Fraction(0, 0, 0, 0, 1), mon |-> 0]

\* One native (or collaborator) call in the trace.
Call(fn, h) ==
    [fn |-> fn, h |-> h, n |-> 0, a |-> NoRect, b |-> NoRect, m |-> "", s |-> ""]

\* No _get_window_module call is in progress.
Idle == [pc |-> "idle", obj |-> 0, hp |-> 0, buffer |-> "", exc |-> ""]

\* ------------------------------------------------------------- BaseWindow
registry == <<objs, windows_by_id, windows_by_name, added>>
native == <<winrect, show, monitors, openProc, frame, trace>>

\* Mutant: the type check lets floats through.
IsNumber(v) == v.t \in {"int", "float"}

\* isinstance(id, integer_types)
IsInteger(v) == v.t = "int"

\* isinstance(name, string_types)
IsString(v) == v.t = "str"

\* The id property's getter: self._id
get_id(w) == w.id

\* The handle property's getter: lambda self: self._id
get_handle(w) == w.id

\* Mutant: an id already registered keeps its wrapper (setdefault).
set_id_keep(reg, id, o) == IF id \in DOMAIN reg THEN reg ELSE Put(reg, id, o)

\* _set_id, line 88: self._windows_by_id[id] = self
set_id(reg, id, o) == Put(reg, id, o)

\* set.add(name): a name already in the set changes nothing; a new one takes
\* the slot its hash gives it, anywhere in the iteration order of the others
\* (no table resize happens below five elements).
SetAdd(names, s) ==
    IF s \in Range(names)
    THEN {names}
    ELSE {SubSeq(names, 1, i) \o <<s>> \o SubSeq(names, i + 1, Len(names)) :
            i \in 0 .. Len(names)}

\* The history of names set on a window, each at its first addition.
FirstAdded(history, s) ==
    IF s \in Range(history) THEN history ELSE Append(history, s)

\* Mutant: a name only for a window with exactly one.
get_name_single(names) == IF Len(names) # 1 THEN None ELSE StrValue(names[1])

\* _get_name: None for no names, else the first name the set's iteration gives.
get_name(names) == IF names = <<>> THEN None ELSE StrValue(names[1])

\* Mutant: the name is not registered.
set_name_skip(reg, s, o) == reg

\* _set_name, line 107: self._windows_by_name[name] = self
set_name(reg, s, o) == Put(reg, s, o)

\* BaseWindow.__init__ for an integer id, on the state [objs, byid, added]:
\* a new object with that id and no names, registered under the id.
NewWindow(st, h) ==
    [objs |-> Append(st.objs, [id |-> h, names |-> <<>>]),
     byid |-> set_id(st.byid, h, Len(st.objs) + 1),
     added |-> Append(st.added, <<>>)]

\* EnumWindows(function, argument): function(handle) once per handle, in order.
RECURSIVE EnumWindows(_, _)
EnumWindows(st, hs) ==
    IF hs = <<>> THEN st ELSE EnumWindows(NewWindow(st, Head(hs)), Tail(hs))

\* Mutant: the registry is never consulted.
ForegroundNeverCached(reg, h) == FALSE

\* Whether get_foreground takes the wrapper the registry holds (line 51).
ForegroundCached(reg, h) == h \in DOMAIN reg

Init ==
    /\ objs = <<>>
    /\ windows_by_id = <<>>
    /\ windows_by_name = <<>>
    /\ added = <<>>
    /\ winrect = <<>>
    /\ show = <<>>
    /\ monitors = <<>>
    /\ openProc = {}
    /\ frame = Idle
    /\ trace = <<>>
    /\ last = NoCall

\* Win32Window(handle) -> BaseWindow.__init__(id): _id = None; self.id = id
\* (a TypeError for a non-integer leaves no object behind); _names = set().
Construct(v) ==
    /\ Len(objs) < MaxObjects
    /\ IF IsInteger(v)
       THEN LET st == NewWindow([objs |-> objs, byid |-> windows_by_id,
                                 added |-> added], v.n)
                o == Len(st.objs)
            IN
            /\ objs' = st.objs
            /\ windows_by_id' = st.byid
            /\ added' = st.added
            /\ last' = [NoCall EXCEPT !.op = "construct", !.obj = o, !.id = v,
                                      !.res = get_id(st.objs[o])]
       ELSE /\ UNCHANGED <<objs, windows_by_id, added>>
            /\ last' = [NoCall EXCEPT !.op = "construct", !.id = v,
                                      !.err = "TypeError"]
    /\ UNCHANGED <<windows_by_name, native>>

\* w.id = value / w.handle = value on an existing window: _set_id.
SetId(o, v) ==
    /\ o \in DOMAIN objs
    /\ IF IsInteger(v)
       THEN /\ objs' = [objs EXCEPT ![o].id = v.n]
            /\ windows_by_id' = set_id(windows_by_id, v.n, o)
            /\ last' = [NoCall EXCEPT !.op = "set_id", !.obj = o, !.id = v,
                                      !.res = get_handle(objs'[o])]
       ELSE /\ UNCHANGED <<objs, windows_by_id>>
            /\ last' = [NoCall EXCEPT !.op = "set_id", !.obj = o, !.id = v,
                                      !.err = "TypeError"]
    /\ UNCHANGED <<windows_by_name, added, native>>

\* w.name = name: _set_name.
SetName(o, v) ==
    /\ o \in DOMAIN objs
    /\ IF IsString(v)
       THEN /\ \E ns \in SetAdd(objs[o].names, v.s) :
                    objs' = [objs EXCEPT ![o].names = ns]
            /\ windows_by_name' = set_name(windows_by_name, v.s, o)
            /\ added' = [added EXCEPT ![o] = FirstAdded(@, v.s)]
            /\ last' = [NoCall EXCEPT !.op = "set_name", !.obj = o, !.name = v]
       ELSE /\ UNCHANGED <<objs, windows_by_name, added>>
            /\ last' = [NoCall EXCEPT !.op = "set_name", !.obj = o, !.name = v,
                                      !.err = "AssertionError"]
    /\ UNCHANGED <<windows_by_id, native>>

\* w.name: _get_name.
GetName(o) ==
    /\ o \in DOMAIN objs
    /\ last' = [NoCall EXCEPT !.op = "get_name", !.obj = o,
                              !.rname = get_name(objs[o].names)]
    /\ UNCHANGED <<registry, native>>

\* ------------------------------------------------- Win32Window: discovery
\* Win32Window.get_foreground(), GetForegroundWindow() returning h.
GetForeground(h) ==
    /\ ForegroundCached(windows_by_id, h) \/ Len(objs) < MaxObjects
    /\ IF ForegroundCached(windows_by_id, h)
       THEN /\ UNCHANGED <<objs, windows_by_id, added>>
            /\ last' = [NoCall EXCEPT !.op = "get_foreground", !.id = IntValue(h),
                                      !.res = windows_by_id[h]]
       ELSE LET st == NewWindow([objs |-> objs, byid |-> windows_by_id,
                                 added |-> added], h)
            IN
            /\ objs' = st.objs
            /\ windows_by_id' = st.byid
            /\ added' = st.added
            /\ last' = [NoCall EXCEPT !.op = "get_foreground", !.id = IntValue(h),
                                      !.res = Len(st.objs)]
    /\ UNCHANGED <<windows_by_name, native>>

\* Win32Window.get_all_windows(), EnumWindows enumerating the handles hs.
GetAllWindows(hs) ==
    /\ Len(objs) + Len(hs) <= MaxObjects
    /\ LET st == EnumWindows([objs |-> objs, byid |-> windows_by_id,
                              added |-> added], hs)
       IN
       /\ objs' = st.objs
       /\ windows_by_id' = st.byid
       /\ added' = st.added
       /\ last' = [NoCall EXCEPT !.op = "get_all_windows", !.hs = hs,
                                 !.list = [i \in 1 .. Len(hs) |-> Len(objs) + i]]
    /\ UNCHANGED <<windows_by_name, native>>

\* Names and discovery: construction, naming, get_foreground, get_all_windows.
Next ==
    \/ \E v \in IdValues : Construct(v)
    \/ \E o \in 1 .. MaxObjects, v \in NameValues : SetName(o, v)
    \/ \E o \in 1 .. MaxObjects : GetName(o)
    \/ \E h \in Handles : GetForeground(h)
    \/ \E hs \in DistinctSeqs(Handles, MaxObjects) \cup {<<>>} : GetAllWindows(hs)

Spec == Init /\ [][Next]_vars

\* Identity: construction, re-assignment of the id, and discovery.
NextIdentity ==
    \/ \E v \in IdValues : Construct(v)
    \/ \E o \in 1 .. MaxObjects, v \in IdValues : SetId(o, v)
    \/ \E h \in Handles : GetForeground(h)
    \/ \E hs \in DistinctSeqs(Handles, MaxObjects) \cup {<<>>} : GetAllWindows(hs)

SpecIdentity == Init /\ [][NextIdentity]_vars
\* ---------------------------------------------------- Win32Window: windows
\* win32con's ShowWindow states.
SW_MAXIMIZE == 3
SW_MINIMIZE == 6
SW_RESTORE == 9

\* Rectangle.ltwh
ltwh(r) == <<r.l, r.t, r.w, r.h>>

\* Rectangle.center
center(r) == [x |-> r.l + r.w \div 2, y |-> r.t + r.h \div 2]

\* Rectangle.contains(point): left and top edges inside, right and bottom not.
contains(r, p) ==
    /\ r.l <= p.x /\ p.x < r.l + r.w
    /\ r.t <= p.y /\ p.y < r.t + r.h

\* rectangle.unit: the unit square.
unit == Rectangle(0, 0, 1, 1)

RECURSIVE GCD(_, _)
GCD(a, b) == IF b = 0 THEN (IF a < 0 THEN -a ELSE a) ELSE GCD(b, a % b)

\* A fractional rectangle in lowest terms.
Reduce(f) ==
    LET g == GCD(GCD(GCD(f.l, f.t), GCD(f.w, f.h)), f.d) IN
    Fraction(f.l \div g, f.t \div g, f.w \div g, f.h \div g, f.d \div g)

\* Rectangle.renormalize(src, dst): the linear map that takes src onto dst,
\* applied to the rectangle's position; its size scaled by dst's over src's.
renormalize(f, src, dst) ==
    Reduce(Fraction(
        (dst.l * f.d * src.w + (f.l - src.l * f.d) * dst.w) * src.h,
        (dst.t * f.d * src.h + (f.t - src.t * f.d) * dst.h) * src.w,
        f.w * dst.w * src.h,
        f.h * dst.h * src.w,
        f.d * src.w * src.h))

\* An absolute rectangle as a fractional one, and back (whole values).
AsFraction(r) == Fraction(r.l, r.t, r.w, r.h, 1)
AsRectangle(f) == Rectangle(f.l \div f.d, f.t \div f.d, f.w \div f.d, f.h \div f.d)

\* window_movers: the names of the registered window movers.
window_movers == {"spiral"}

\* A mover's move_window(window, origin, destination) leaves the window at
\* the destination.
mover_move_window(wr, h, destination) ==
    [wr EXCEPT ![h] = [l |-> destination.l, t |-> destination.t,
                       r |-> destination.l + destination.w,
                       b |-> destination.t + destination.h]]

\* win32gui.MoveWindow(handle, l, t, w, h, 1) on the native rectangles.
MoveWindow(wr, h, l, t, w, ht) ==
    [wr EXCEPT ![h] = [l |-> l, t |-> t, r |-> l + w, b |-> t + ht]]

\* get_position: l, t, r, b = GetWindowRect; Rectangle(l, t, r - l, b - t)
get_position(wr, h) ==
    LET g == wr[h] IN Rectangle(g.l, g.t, g.r - g.l, g.b - g.t)

\* set_position: the native rectangles after it.
set_position(wr, h, rectangle) ==
    LET q == ltwh(rectangle) IN MoveWindow(wr, h, q[1], q[2], q[3], q[4])

\* set_position: its one native call.
set_position_calls(h, rectangle) ==
    <<[Call("MoveWindow", h) EXCEPT !.a = rectangle, !.n = 1]>>

\* Mutant: an unknown mover name is looked up without the KeyError handler,
\* and an empty name is looked up too.
move_route_strict(animate) ==
    IF animate.t = "none"
    THEN "set_position"
    ELSE IF animate.s \in window_movers THEN "mover" ELSE "KeyError"

\* move, lines 215-224: which way the call goes.
move_route(animate) ==
    IF animate.t = "none" \/ animate.s = ""
    THEN "set_position"
    ELSE IF animate.s \in window_movers THEN "mover" ELSE "set_position"

\* move, line 224: the position read and the mover's call.
move_window_calls(animate, h, origin, rectangle) ==
    <<Call("GetWindowRect", h),
      [Call("move_window", h) EXCEPT !.m = animate.s, !.a = origin,
                                     !.b = rectangle]>>

\* Mutant: the last monitor containing the point; the last monitor if none.
containing_monitor_last(ms, p, i) ==
    LET hits == {j \in i .. Len(ms) : contains(ms[j], p)} IN
    IF hits = {} THEN Len(ms) ELSE CHOOSE j \in hits : \A k \in hits : k <= j

\* get_containing_monitor's loop from monitor i on, and its fall-through:
\* the index of the monitor returned.
RECURSIVE containing_monitor(_, _, _)
containing_monitor(ms, p, i) ==
    IF i > Len(ms)
    THEN 1
    ELSE IF contains(ms[i], p) THEN i ELSE containing_monitor(ms, p, i + 1)

\* is_minimized: IsIconic(handle) and True or False
is_minimized(sh, h) == sh[h] = "minimized"

\* win32gui.ShowWindow(handle, state): the show states the window can end in.
ShowWindow(sh, h, state) ==
    IF state = SW_MINIMIZE
    THEN {"minimized"}
    ELSE IF state = SW_MAXIMIZE
         THEN {"maximized"}
         ELSE IF sh[h] = "minimized" THEN {"normal", "maximized"} ELSE {"normal"}

\* Mutant: the focus call first, the restore after it.
set_foreground_calls_late(h, minimized) ==
    <<Call("IsIconic", h)>>
        \o <<Call("SetForegroundWindow", h)>>
        \o (IF minimized
            THEN <<[Call("ShowWindow", h) EXCEPT !.n = SW_RESTORE]>>
            ELSE <<>>)

\* set_foreground: its native calls, in order.
set_foreground_calls(h, minimized) ==
    <<Call("IsIconic", h)>>
        \o (IF minimized
            THEN <<[Call("ShowWindow", h) EXCEPT !.n = SW_RESTORE]>>
            ELSE <<>>)
        \o <<Call("SetForegroundWindow", h)>>

\* The windows on screen, each wrapped once by get_all_windows.
InitWindows ==
    LET st == EnumWindows([objs |-> <<>>, byid |-> <<>>, added |-> <<>>], <<1, 2>>)
    IN
    /\ objs = st.objs
    /\ windows_by_id = st.byid
    /\ windows_by_name = <<>>
    /\ added = st.added
    /\ winrect = [h \in Handles |-> [l |-> 0, t |-> 0, r |-> 2, b |-> 2]]
    /\ show = [h \in Handles |-> "normal"]
    /\ monitors \in MonitorLists
    /\ openProc = {}
    /\ frame = Idle
    /\ trace = <<>>
    /\ last = NoCall

GetPosition(o) ==
    LET h == objs[o].id IN
    /\ trace' = <<Call("GetWindowRect", h)>>
    /\ last' = [NoCall EXCEPT !.op = "get_position", !.obj = o,
                              !.rect = get_position(winrect, h)]
    /\ UNCHANGED <<registry, winrect, show, monitors, openProc, frame>>

SetPosition(o, rectangle) ==
    LET h == objs[o].id IN
    /\ winrect' = set_position(winrect, h, rectangle)
    /\ trace' = set_position_calls(h, rectangle)
    /\ last' = [NoCall EXCEPT !.op = "set_position", !.obj = o, !.rect = rectangle]
    /\ UNCHANGED <<registry, show, monitors, openProc, frame>>

Move(o, rectangle, animate) ==
    LET h == objs[o].id
        route == move_route(animate)
    IN
    /\ IF route = "set_position"
       THEN /\ winrect' = set_position(winrect, h, rectangle)
            /\ trace' = set_position_calls(h, rectangle)
            /\ last' = [NoCall EXCEPT !.op = "move", !.obj = o, !.rect = rectangle,
                                      !.animate = animate]
       ELSE IF route = "mover"
            THEN /\ winrect' = mover_move_window(winrect, h, rectangle)
                 /\ trace' = move_window_calls(animate, h, get_position(winrect, h),
                                               rectangle)
                 /\ last' = [NoCall EXCEPT !.op = "move", !.obj = o,
                                           !.rect = rectangle, !.animate = animate]
            ELSE /\ UNCHANGED winrect
                 /\ trace' = <<>>
                 /\ last' = [NoCall EXCEPT !.op = "move", !.obj = o,
                                           !.rect = rectangle, !.animate = animate,
                                           !.err = route]
    /\ UNCHANGED <<registry, show, monitors, openProc, frame>>

GetContainingMonitor(o) ==
    LET h == objs[o].id
        p == center(get_position(winrect, h))
    IN
    /\ trace' = <<Call("GetWindowRect", h)>>
    /\ IF monitors = <<>>
       THEN last' = [NoCall EXCEPT !.op = "get_containing_monitor", !.obj = o,
                                   !.err = "IndexError"]
       ELSE last' = [NoCall EXCEPT !.op = "get_containing_monitor", !.obj = o,
                                   !.res = containing_monitor(monitors, p, 1)]
    /\ UNCHANGED <<registry, winrect, show, monitors, openProc, frame>>

\* get_normalized_position: the containing monitor, then the position,
\* renormalized from the monitor's rectangle to the unit square.
GetNormalizedPosition(o) ==
    LET h == objs[o].id
        p == center(get_position(winrect, h))
    IN
    /\ IF monitors = <<>>
       THEN /\ trace' = <<Call("GetWindowRect", h)>>
            /\ last' = [NoCall EXCEPT !.op = "get_normalized_position", !.obj = o,
                                      !.err = "IndexError"]
       ELSE LET m == containing_monitor(monitors, p, 1) IN
            /\ trace' = <<Call("GetWindowRect", h), Call("GetWindowRect", h)>>
            /\ last' = [NoCall EXCEPT
                            !.op = "get_normalized_position", !.obj = o, !.res = m,
                            !.norm = renormalize(AsFraction(get_position(winrect, h)),
                                                 monitors[m], unit)]
    /\ UNCHANGED <<registry, winrect, show, monitors, openProc, frame>>

\* set_normalized_position(rectangle, monitor): monitor 0 is None, for which
\* the containing monitor is taken; the rectangle is renormalized from the
\* unit square to the monitor's rectangle and given to set_position.
SetNormalizedPosition(o, f, monitor) ==
    LET h == objs[o].id
        p == center(get_position(winrect, h))
        looked == IF monitor = 0 THEN <<Call("GetWindowRect", h)>> ELSE <<>>
    IN
    /\ monitor \in 0 .. Len(monitors)
    /\ IF monitor = 0 /\ monitors = <<>>
       THEN /\ trace' = looked
            /\ UNCHANGED winrect
            /\ last' = [NoCall EXCEPT !.op = "set_normalized_position", !.obj = o,
                                      !.norm = f, !.err = "IndexError"]
       ELSE LET m == IF monitor = 0 THEN containing_monitor(monitors, p, 1)
                     ELSE monitor
                rectangle == AsRectangle(renormalize(f, unit, monitors[m]))
            IN
            /\ winrect' = set_position(winrect, h, rectangle)
            /\ trace' = looked \o set_position_calls(h, rectangle)
            /\ last' = [NoCall EXCEPT !.op = "set_normalized_position", !.obj = o,
                                      !.norm = f, !.mon = monitor, !.res = m,
                                      !.rect = rectangle]
    /\ UNCHANGED <<registry, show, monitors, openProc, frame>>

\* minimize, maximize, restore: ShowWindow(self._handle, state)
Show(o, name, state) ==
    LET h == objs[o].id IN
    /\ \E s \in ShowWindow(show, h, state) : show' = [show EXCEPT ![h] = s]
    /\ trace' = <<[Call("ShowWindow", h) EXCEPT !.n = state]>>
    /\ last' = [NoCall EXCEPT !.op = name, !.obj = o, !.before = show[h]]
    /\ UNCHANGED <<registry, winrect, monitors, openProc, frame>>

Minimize(o) == Show(o, "minimize", SW_MINIMIZE)

Maximize(o) == Show(o, "maximize", SW_MAXIMIZE)

Restore(o) == Show(o, "restore", SW_RESTORE)

SetForeground(o) ==
    LET h == objs[o].id IN
    /\ IF is_minimized(show, h)
       THEN \E s \in ShowWindow(show, h, SW_RESTORE) : show' = [show EXCEPT ![h] = s]
       ELSE UNCHANGED show
    /\ trace' = set_foreground_calls(h, is_minimized(show, h))
    /\ last' = [NoCall EXCEPT !.op = "set_foreground", !.obj = o, !.before = show[h]]
    /\ UNCHANGED <<registry, winrect, monitors, openProc, frame>>

\* Geometry and control of the windows on screen.
NextWindows ==
    \/ \E o \in DOMAIN objs : GetPosition(o)
    \/ \E o \in DOMAIN objs, r \in Rects : SetPosition(o, r)
    \/ \E o \in DOMAIN objs, r \in Rects, a \in AnimateValues : Move(o, r, a)
    \/ \E o \in DOMAIN objs : GetContainingMonitor(o)
    \/ \E o \in DOMAIN objs : GetNormalizedPosition(o)
    \/ \E o \in DOMAIN objs, f \in NormRects, m \in 0 .. MaxMonitors :
            SetNormalizedPosition(o, f, m)
    \/ \E o \in DOMAIN objs : Minimize(o)
    \/ \E o \in DOMAIN objs : Maximize(o)
    \/ \E o \in DOMAIN objs : Restore(o)
    \/ \E o \in DOMAIN objs : SetForeground(o)

SpecWindows == InitWindows /\ [][NextWindows]_vars

\* ------------------------------------------- Win32Window._get_window_module
\* Mutant: nothing catches the modern query's exception.
after_try_uncaught(raised) == "finally"

\* Where control goes after the try body (lines 126-136): to the except
\* handler if it raised, else to the finally clause.
after_try(raised) == IF raised THEN "except" ELSE "finally"

\* Mutant: the handle is closed after the handler, not in a finally clause.
after_except_unguarded(raised) == IF raised THEN "idle" ELSE "finally"

\* Where control goes after the except handler (lines 136-149): to the
\* finally clause, whether the handler completed or raised.
after_except(raised) == "finally"

\* windll.kernel32.CloseHandle(handle) on the open process handles.
CloseHandle(open, hp) == open \ {hp}

\* Lines 117-123: the window's process id, then OpenProcess.
ModuleOpen(o) ==
    /\ frame.pc = "idle"
    /\ \E hp \in (ProcHandles \ openProc) \cup {0} :
        /\ openProc' = openProc \cup ({hp} \ {0})
        /\ frame' = [Idle EXCEPT !.pc = "try", !.obj = o, !.hp = hp]
        /\ trace' = <<Call("GetWindowThreadProcessId", objs[o].id),
                      Call("OpenProcess", hp)>>
    /\ UNCHANGED <<registry, winrect, show, monitors, last>>

\* Lines 129-135: QueryFullProcessImageNameW and the cut at the first NUL.
ModuleModernReturns(path) ==
    /\ frame.pc = "try"
    /\ frame' = [frame EXCEPT !.pc = after_try(FALSE), !.buffer = path]
    /\ trace' = Append(trace, [Call("QueryFullProcessImageNameW", frame.hp)
                                EXCEPT !.m = "returned", !.s = path])
    /\ UNCHANGED <<registry, winrect, show, monitors, openProc, last>>

\* Lines 129-136: the try body raises.
ModuleModernRaises ==
    /\ frame.pc = "try"
    /\ frame' = [frame EXCEPT !.pc = after_try(TRUE),
                              !.exc = IF after_try(TRUE) = "except"
                                      THEN "" ELSE "Exception"]
    /\ trace' = Append(trace, [Call("QueryFullProcessImageNameW", frame.hp)
                                EXCEPT !.m = "raised"])
    /\ UNCHANGED <<registry, winrect, show, monitors, openProc, last>>

\* Lines 142-147: GetModuleFileNameExW and the cut at the first NUL.
ModuleLegacyReturns(path) ==
    /\ frame.pc = "except"
    /\ frame' = [frame EXCEPT !.pc = after_except(FALSE), !.buffer = path]
    /\ trace' = Append(trace, [Call("GetModuleFileNameExW", frame.hp)
                                EXCEPT !.m = "returned", !.s = path])
    /\ UNCHANGED <<registry, winrect, show, monitors, openProc, last>>

\* Lines 142-147: the except handler raises.
ModuleLegacyRaises ==
    /\ frame.pc = "except"
    /\ trace' = Append(trace, [Call("GetModuleFileNameExW", frame.hp)
                                EXCEPT !.m = "raised"])
    /\ IF after_except(TRUE) = "finally"
       THEN /\ frame' = [frame EXCEPT !.pc = "finally", !.exc = "Exception"]
            /\ UNCHANGED last
       ELSE /\ frame' = Idle
            /\ last' = [NoCall EXCEPT !.op = "get_window_module",
                                      !.obj = frame.obj, !.err = "Exception"]
    /\ UNCHANGED <<registry, winrect, show, monitors, openProc>>

\* Lines 148-151: CloseHandle, then the pending exception or str(buffer).
ModuleFinally ==
    /\ frame.pc = "finally"
    /\ openProc' = CloseHandle(openProc, frame.hp)
    /\ trace' = Append(trace, Call("CloseHandle", frame.hp))
    /\ frame' = Idle
    /\ IF frame.exc # ""
       THEN last' = [NoCall EXCEPT !.op = "get_window_module", !.obj = frame.obj,
                                   !.err = frame.exc]
       ELSE last' = [NoCall EXCEPT !.op = "get_window_module", !.obj = frame.obj,
                                   !.rname = StrValue(frame.buffer)]
    /\ UNCHANGED <<registry, winrect, show, monitors>>

\* The executable property of the windows on screen, one call at a time.
NextModule ==
    \/ \E o \in DOMAIN objs : ModuleOpen(o)
    \/ \E path \in ExePaths : ModuleModernReturns(path)
    \/ ModuleModernRaises
    \/ \E path \in ExePaths : ModuleLegacyReturns(path)
    \/ ModuleLegacyRaises
    \/ ModuleFinally

SpecModule == InitWindows /\ [][NextModule]_vars

\* ------------------------------------------------------------------ claims
\* C1: constructing a window with an integer id succeeds, and reading back its
\* id and its handle alias gives that integer; constructing with a non-integer
\* id fails with a TypeError and makes no window.
C1_ConstructReadsBack ==
    last.op = "construct" =>
        IF last.id.t = "int"
        THEN /\ last.err = ""
             /\ last.obj \in DOMAIN objs
             /\ last.res = last.id.n
             /\ get_id(objs[last.obj]) = last.id.n
             /\ get_handle(objs[last.obj]) = last.id.n
        ELSE /\ last.err = "TypeError"
             /\ last.obj = 0

\* C1 witness: a construction with a non-integer id has failed while a window
\* constructed with the negative integer id -1 exists.
C1_Witness ==
    /\ last.op = "construct"
    /\ last.err = "TypeError"
    /\ \E o \in DOMAIN objs : get_id(objs[o]) = -1

\* C2: right after w.name = n, the name registry maps n to w; and w.name gives
\* one of the names set on w before.
C2_NameRegistered ==
    /\ (last.op = "set_name" /\ last.err = "") =>
            /\ last.name.s \in DOMAIN windows_by_name
            /\ windows_by_name[last.name.s] = last.obj
    /\ (last.op = "get_name" /\ added[last.obj] # <<>>) =>
            /\ last.rname.t = "str"
            /\ last.rname.s \in Range(added[last.obj])

\* C2 witness: a second name has just been set on a window, and the registry
\* maps it to that window.
C2_Witness ==
    /\ last.op = "set_name"
    /\ last.err = ""
    /\ Len(added[last.obj]) = 2
    /\ added[last.obj][2] = last.name.s
    /\ windows_by_name[last.name.s] = last.obj

\* C8: get_foreground gives the wrapper the handle registry holds for the
\* foreground handle, making no object and changing neither registry; for a
\* handle that is no key it makes one new wrapper, which the registry then
\* holds. Two get_foreground calls in a row for one handle give one object.
C8_ForegroundReuses ==
    [][last'.op = "get_foreground" =>
        LET h == last'.id.n IN
        /\ IF h \in DOMAIN windows_by_id
           THEN /\ last'.res = windows_by_id[h]
                /\ objs' = objs
                /\ windows_by_id' = windows_by_id
                /\ windows_by_name' = windows_by_name
           ELSE /\ last'.res = Len(objs) + 1
                /\ Len(objs') = Len(objs) + 1
                /\ get_id(objs'[last'.res]) = h
                /\ windows_by_id'[h] = last'.res
                /\ \A k \in DOMAIN windows_by_id : windows_by_id'[k] = windows_by_id[k]
        /\ (last.op = "get_foreground" /\ last.id = last'.id) => last'.res = last.res
    ]_vars

\* C8 witness: get_foreground has returned the first of two wrappers, the one
\* the registry held.
C8_Witness ==
    /\ last.op = "get_foreground"
    /\ Len(objs) = 2
    /\ last.res = 1
    /\ windows_by_id[last.id.n] = 1

\* C9 as stated: the name accessor gives the name that was added first.
C9_FirstAddedIsReturned ==
    (last.op = "get_name" /\ added[last.obj] # <<>>) =>
        last.rname = StrValue(added[last.obj][1])

\* C9 amended: the name accessor gives None for a window with no name, and
\* otherwise one of the names added to the window, first-added or not.
C9_SomeAddedIsReturned ==
    \A o \in DOMAIN objs :
        IF added[o] = <<>>
        THEN get_name(objs[o].names) = None
        ELSE /\ get_name(objs[o].names).t = "str"
             /\ get_name(objs[o].names).s \in Range(added[o])

\* C9 witness: the accessor has given the second name added to a window.
C9_Witness ==
    /\ last.op = "get_name"
    /\ Len(added[last.obj]) = 2
    /\ last.rname = StrValue(added[last.obj][2])

\* C10: get_all_windows makes one new wrapper per enumerated handle, nameless
\* and none of them a wrapper from before the call, and the handle registry
\* then maps each enumerated handle to its new wrapper; a get_foreground right
\* after it, for an enumerated handle, gives that new wrapper.
C10_EnumerationReplaces ==
    [][/\ last'.op = "get_all_windows" =>
            /\ Len(last'.list) = Len(last'.hs)
            /\ \A i \in 1 .. Len(last'.hs) :
                LET o == last'.list[i] IN
                /\ o \notin DOMAIN objs
                /\ o \in DOMAIN objs'
                /\ \A j \in 1 .. Len(last'.hs) : last'.list[j] = o => j = i
                /\ get_id(objs'[o]) = last'.hs[i]
                /\ objs'[o].names = <<>>
                /\ windows_by_id'[last'.hs[i]] = o
       /\ (/\ last.op = "get_all_windows"
           /\ last'.op = "get_foreground"
           /\ last'.id.n \in Range(last.hs)) =>
            /\ last'.res \in Range(last.list)
            /\ objs'[last'.res].names = <<>>
    ]_vars

\* C10 witness: get_all_windows has enumerated the handle of a named wrapper
\* made before the call, and the registry maps that handle to a new wrapper.
C10_Witness ==
    /\ last.op = "get_all_windows"
    /\ \E o \in DOMAIN objs \ Range(last.list) :
        /\ objs[o].names # <<>>
        /\ get_id(objs[o]) \in Range(last.hs)
        /\ windows_by_id[get_id(objs[o])] \in Range(last.list)
\* C3: move(r, a) with a absent, empty or no registered mover's name does just
\* what set_position(r) does, calls no mover and raises nothing; with a a
\* registered mover's name it calls that mover's move_window with the window,
\* the window's position at the call and r, and does not call set_position.
C3_MoveDispatch ==
    [][last'.op = "move" =>
        LET h == objs[last'.obj].id
            r == last'.rect
            a == last'.animate
        IN
        IF a = None \/ a.s = "" \/ a.s \notin window_movers
        THEN /\ last'.err = ""
             /\ trace' = set_position_calls(h, r)
             /\ winrect' = set_position(winrect, h, r)
             /\ \A i \in DOMAIN trace' : trace'[i].fn # "move_window"
        ELSE /\ last'.err = ""
             /\ Len(trace') = 2
             /\ trace'[2].fn = "move_window"
             /\ trace'[2].m = a.s
             /\ trace'[2].h = h
             /\ trace'[2].a = get_position(winrect, h)
             /\ trace'[2].b = r
             /\ \A i \in DOMAIN trace' : trace'[i].fn # "MoveWindow"
    ]_vars

\* C3 witness: move with an unregistered mover name has placed a window that
\* stood elsewhere, by the one native call of set_position.
C3_Witness ==
    /\ last.op = "move"
    /\ last.animate = StrValue("bogus")
    /\ last.err = ""
    /\ last.rect # Rectangle(0, 0, 2, 2)
    /\ get_position(winrect, objs[last.obj].id) = last.rect
    /\ trace = set_position_calls(objs[last.obj].id, last.rect)

\* C4: set_foreground on a minimized window issues the restore call and then
\* the foreground-focus call; on any other window only the focus call.
C4_RestoreBeforeFocus ==
    last.op = "set_foreground" =>
        LET h == objs[last.obj].id
            acts == SelectSeq(trace, LAMBDA c : c.fn # "IsIconic")
        IN
        IF last.before = "minimized"
        THEN /\ Len(acts) = 2
             /\ acts[1].fn = "ShowWindow" /\ acts[1].n = SW_RESTORE /\ acts[1].h = h
             /\ acts[2].fn = "SetForegroundWindow" /\ acts[2].h = h
        ELSE /\ Len(acts) = 1
             /\ acts[1].fn = "SetForegroundWindow" /\ acts[1].h = h

\* C4 witness: set_foreground has run on a minimized window, which is
\* minimized no longer.
C4_Witness ==
    /\ last.op = "set_foreground"
    /\ last.before = "minimized"
    /\ ~is_minimized(show, objs[last.obj].id)
    /\ Len(trace) = 3

\* C5: with a non-empty monitor list, get_containing_monitor gives the first
\* monitor in list order that contains the window's center, and the first
\* monitor of the list when none contains it.
C5_FirstContainingMonitor ==
    (last.op = "get_containing_monitor" /\ monitors # <<>>) =>
        LET p == center(get_position(winrect, objs[last.obj].id))
            hits == {i \in DOMAIN monitors : contains(monitors[i], p)}
        IN
        /\ last.err = ""
        /\ IF hits = {}
           THEN last.res = 1
           ELSE /\ last.res \in hits
                /\ \A i \in hits : last.res <= i

\* C5 witness: the window's center lies on the right edge of the first
\* monitor, and the second monitor, which contains it, is the one given.
C5_Witness ==
    /\ last.op = "get_containing_monitor"
    /\ Len(monitors) >= 2
    /\ center(get_position(winrect, objs[last.obj].id)).x
            = monitors[1].l + monitors[1].w
    /\ last.res = 2
\* The calls of the finished lookup's trace to the native function fn.
CallsTo(fn) == SelectSeq(trace, LAMBDA c : c.fn = fn)

\* The executable-path lookup has returned or raised.
LookupDone == frame.pc = "idle" /\ last.op = "get_window_module"

\* C6: the process handle the lookup opened is released exactly once before
\* the lookup returns or raises, whichever queries succeeded or failed: it is
\* open while the lookup runs, and closed by its one CloseHandle call, the
\* lookup's last call, once the lookup is over.
C6_HandleReleasedOnce ==
    /\ frame.pc = "idle" => openProc = {}
    /\ frame.pc # "idle" => openProc = {frame.hp} \ {0}
    /\ LookupDone =>
        /\ Len(CallsTo("OpenProcess")) = 1
        /\ Len(CallsTo("CloseHandle")) = 1
        /\ CallsTo("CloseHandle")[1].h = CallsTo("OpenProcess")[1].h
        /\ trace[Len(trace)].fn = "CloseHandle"

\* C6 witness: both queries have failed on an opened process handle, the
\* lookup has raised, and the handle is closed.
C6_Witness ==
    /\ LookupDone
    /\ last.err # ""
    /\ CallsTo("OpenProcess")[1].h # 0
    /\ CallsTo("QueryFullProcessImageNameW")[1].m = "raised"
    /\ CallsTo("GetModuleFileNameExW")[1].m = "raised"
    /\ openProc = {}

\* C7: when the modern query raises, the legacy query is issued, and the
\* caller gets the legacy query's path if that succeeds and an error only if
\* the legacy query raises too; when the modern query succeeds the legacy
\* query is not issued and the caller gets the modern query's path.
C7_FallbackToLegacy ==
    LookupDone =>
        LET modern == CallsTo("QueryFullProcessImageNameW")
            legacy == CallsTo("GetModuleFileNameExW")
        IN
        /\ Len(modern) = 1
        /\ IF modern[1].m = "raised"
           THEN /\ Len(legacy) = 1
                /\ IF legacy[1].m = "raised"
                   THEN last.err # ""
                   ELSE last.err = "" /\ last.rname = StrValue(legacy[1].s)
           ELSE /\ Len(legacy) = 0
                /\ last.err = ""
                /\ last.rname = StrValue(modern[1].s)

\* C7 witness: the modern query has raised, the legacy query has given a
\* path, and the caller has that path and no error.
C7_Witness ==
    /\ LookupDone
    /\ CallsTo("QueryFullProcessImageNameW")[1].m = "raised"
    /\ CallsTo("GetModuleFileNameExW")[1].m = "returned"
    /\ last.err = ""
    /\ last.rname = StrValue("app.exe")
====
